---- MODULE Spec2Model ----
(***************************************************************************)
(* The transcription request pipeline of src/transcription.py: the two    *)
(* FastAPI handlers transcribe_audio_file and transcribe_base64_audio,    *)
(* the adapter _call_sarvam_transcription_api, the temporary files they   *)
(* create in the temp directory, and the event loop that runs them.       *)
(*                                                                         *)
(* Text is a sequence of one-character strings, so that startswith,       *)
(* splitext and b64decode are computed character by character.  An        *)
(* optional value (Python None) is the empty sequence, a present value x  *)
(* is the one-element sequence <<x>>.                                      *)
(***************************************************************************)
EXTENDS Integers, Sequences, FiniteSets, TLC

\* ------------------------------------------------------------------ bounds
\* Number of requests the server receives in one run.
NumReq == 2
\* Longest audio_data drawn in the decoding specification.
MaxDataLen == 4
\* Longest filename drawn in the upload specification.
MaxNameLen == 4

Req == 1..NumReq

\* ------------------------------------------------------- optional values
None == <<>>
Some(x) == <<x>>
Get(o) == o[1]

\* ------------------------------------------------------ program constants
HTTP_200_OK == 200
HTTP_400_BAD_REQUEST == 400
HTTP_500_INTERNAL_SERVER_ERROR == 500
HTTP_503_SERVICE_UNAVAILABLE == 503

\* 'Transcription result not found in API response.'
NOT_FOUND_TEXT == "Transcription result not found in API response."

AUDIO_PREFIX == <<"a", "u", "d", "i", "o", "/">>
DEFAULT_UPLOAD_NAME == <<"a", "u", "d", "i", "o", ".", "w", "a", "v">>
DEFAULT_RESPONSE_NAME == <<"a", "u", "d", "i", "o", "_", "f", "i", "l", "e">>
DOT_WAV == <<".", "w", "a", "v">>
DOT_MP3 == <<".", "m", "p", "3">>

\* ------------------------------------------------------------ pure helpers
\* All sequences over alphabet S of length at most n.
RECURSIVE SeqsUpTo(_, _)
SeqsUpTo(S, n) ==
    IF n = 0 THEN {<<>>}
    ELSE LET shorter == SeqsUpTo(S, n - 1)
         IN  shorter \cup {Append(s, c) : s \in {t \in shorter : Len(t) = n - 1}, c \in S}

\* str.startswith(prefix)
StartsWith(s, prefix) ==
    /\ Len(s) >= Len(prefix)
    /\ SubSeq(s, 1, Len(prefix)) = prefix

\* str.rfind(c), 1-based; 0 when c does not occur (Python's -1).
RFind(p, c) ==
    LET hits == {i \in 1..Len(p) : p[i] = c}
    IN  IF hits = {} THEN 0 ELSE CHOOSE i \in hits : \A j \in hits : j <= i

\* The second component of os.path.splitext(p) (posixpath: sep '/', extsep '.'):
\* the text from the last dot on, provided that dot comes after the last
\* separator and some character between them is not a dot.
SplitExt(p) ==
    LET sepIndex == RFind(p, "/")
        dotIndex == RFind(p, ".")
    IN  IF /\ dotIndex > sepIndex
           /\ \E k \in (sepIndex + 1)..(dotIndex - 1) : p[k] # "."
        THEN SubSeq(p, dotIndex, Len(p))
        ELSE <<>>

\* `x or default` on an optional text: None and the empty text are falsy.
OrDefault(o, default) == IF o = None \/ Get(o) = <<>> THEN default ELSE Get(o)

\* A check that only asks for a content type, whatever it is.
HasAudioTypeAnyType(content_type) ==
    /\ content_type # None
    /\ Get(content_type) # <<>>

\* file.content_type passes the check of line 119.
HasAudioType(content_type) ==
    /\ content_type # None
    /\ Get(content_type) # <<>>
    /\ StartsWith(Get(content_type), AUDIO_PREFIX)

\* os.path.splitext(file.filename or "audio.wav")[1]
UploadExt(filename) == SplitExt(OrDefault(filename, DEFAULT_UPLOAD_NAME))

\* --------------------------------------------------------------- b64decode
\* The characters audio_data is drawn from: three of the Base64 alphabet,
\* the pad, an ASCII character outside the alphabet, a non-ASCII character.
B64_ALPHABET == {"A", "Q", "/"}
B64_PAD == "="
\* One token stands for a character above U+007F.
NON_ASCII == {"U+00E9"}
DataChars == B64_ALPHABET \cup {B64_PAD, "!"} \cup NON_ASCII

\* table_a2b_base64: the 6-bit value of an alphabet character.
B64Value(c) == CASE c = "A" -> 0 [] c = "Q" -> 16 [] c = "/" -> 63

DecodeOk(bytes) == [err |-> "none", bytes |-> bytes]
DecodeError(kind) == [err |-> kind, bytes |-> <<>>]

\* binascii.a2b_base64(s) with strict_mode off, as base64.b64decode calls it:
\* characters outside the alphabet are skipped, a pad that completes a quad
\* ends the parse, and leftover data characters are an error.
RECURSIVE A2bBase64(_, _, _, _, _, _)
A2bBase64(s, i, quad_pos, leftchar, pads, out) ==
    IF i > Len(s)
    THEN IF quad_pos # 0 THEN DecodeError("binascii.Error") ELSE DecodeOk(out)
    ELSE LET c == s[i] IN
         IF c = B64_PAD
         THEN IF quad_pos >= 2 /\ quad_pos + pads + 1 >= 4
              THEN DecodeOk(out)
              ELSE A2bBase64(s, i + 1, quad_pos, leftchar,
                             IF quad_pos >= 2 THEN pads + 1 ELSE pads, out)
         ELSE IF c \notin B64_ALPHABET
         THEN A2bBase64(s, i + 1, quad_pos, leftchar, pads, out)
         ELSE LET v == B64Value(c) IN
              CASE quad_pos = 0 ->
                     A2bBase64(s, i + 1, 1, v, 0, out)
                [] quad_pos = 1 ->
                     A2bBase64(s, i + 1, 2, v % 16, 0,
                               Append(out, (leftchar * 4 + v \div 16) % 256))
                [] quad_pos = 2 ->
                     A2bBase64(s, i + 1, 3, v % 4, 0,
                               Append(out, (leftchar * 16 + v \div 4) % 256))
                [] quad_pos = 3 ->
                     A2bBase64(s, i + 1, 0, 0, 0,
                               Append(out, (leftchar * 64 + v) % 256))

\* base64.b64decode(s) for a str s: a non-ASCII character is a plain
\* ValueError, anything else goes to a2b_base64.
B64Decode(s) ==
    IF \E i \in 1..Len(s) : s[i] \in NON_ASCII
    THEN DecodeError("ValueError")
    ELSE A2bBase64(s, 1, 0, 0, 0, <<>>)

\* ------------------------------------------------------ provider response
ResponseKeys == {"text", "transcript"}
Texts == {"hello world", "namaste"}
\* The mappings the provider may answer with: any subset of the two keys.
Responses == UNION {[K -> Texts] : K \in SUBSET ResponseKeys}

\* The two keys probed in the other order.
ExtractTextTranscriptFirst(response) ==
    IF "transcript" \in DOMAIN response THEN response["transcript"]
    ELSE IF "text" \in DOMAIN response THEN response["text"]
    ELSE NOT_FOUND_TEXT

\* response.get('text', response.get('transcript', NOT_FOUND_TEXT))
ExtractText(response) ==
    IF "text" \in DOMAIN response THEN response["text"]
    ELSE IF "transcript" \in DOMAIN response THEN response["transcript"]
    ELSE NOT_FOUND_TEXT

\* ------------------------------------------------------------------- state
VARIABLES
    SARVAM_CLIENT,   \* the process-wide client: "None" or "client"
    running,         \* the request whose handler the event loop is running, 0 if none
    pc,              \* where each request is in its handler
    request,         \* each request's input
    tmp,             \* upload handler: the NamedTemporaryFile, None before it exists
    temp_file_path,  \* each handler's local temp_file_path, None or a path
    fs,              \* the temp directory: path -> [owner, data]
    result,          \* what the handler returned or raised, None while it runs
    sent,            \* the file content handed to the provider, None if no call
    response,        \* the provider's answer, None if it gave none
    events           \* per request: the file and provider operations, in order

vars == <<SARVAM_CLIENT, running, pc, request, tmp, temp_file_path, fs, result,
          sent, response, events>>

\* Paths in tempfile.gettempdir().
TmpPath(n, suffix) == [stem |-> "tmp", rand |-> n, suffix |-> suffix]
\* os.path.join(tempfile.gettempdir(), f"mic_recording{file_extension}")
MicPath(file_extension) == [stem |-> "mic_recording", rand |-> 0, suffix |-> file_extension]

Exists(path) == path \in DOMAIN fs
WriteFile(path, owner, data) ==
    [p \in DOMAIN fs \cup {path} |->
        IF p = path THEN [owner |-> owner, data |-> data] ELSE fs[p]]
Unlink(path) == [p \in DOMAIN fs \ {path} |-> fs[p]]
EmptyDir == [p \in {} |-> [owner |-> 0, data |-> <<>>]]

\* Outcomes of a handler.
TranscriptionResponse(filename, text) ==
    [kind |-> "response", status |-> HTTP_200_OK, filename |-> filename, text |-> text]
HTTPException(status) ==
    [kind |-> "HTTPException", status |-> status, filename |-> <<>>, text |-> ""]
\* An exception no except clause of the handler catches; the framework
\* answers it with its generic Internal Server Error.
Unhandled ==
    [kind |-> "unhandled", status |-> HTTP_500_INTERNAL_SERVER_ERROR,
     filename |-> <<>>, text |-> ""]

UploadRequest(content_type, filename, body) ==
    [kind |-> "upload", content_type |-> content_type, filename |-> filename,
     body |-> body, audio_data |-> <<>>, file_extension |-> <<>>]
VOICE_NOTE == <<"v", "o", "i", "c", "e", "_", "n", "o", "t", "e", ".", "w", "a", "v">>
Base64AudioRequest(audio_data, file_extension) ==
    [kind |-> "base64", content_type |-> None, filename |-> Some(VOICE_NOTE),
     body |-> <<>>, audio_data |-> audio_data, file_extension |-> file_extension]
NoRequest == [kind |-> "none", content_type |-> None, filename |-> None,
              body |-> <<>>, audio_data |-> <<>>, file_extension |-> <<>>]

\* ------------------------------------------------------------------ inputs
AUDIO_WAV == AUDIO_PREFIX \o <<"w", "a", "v">>
TEXT_PLAIN == <<"t", "e", "x", "t", "/", "p", "l", "a", "i", "n">>
CLIP == <<"c", "l", "i", "p">>
ContentTypes == {Some(AUDIO_WAV), Some(TEXT_PLAIN)}
Filenames == {None, Some(CLIP \o DOT_WAV)}
Bodies == {<<82, 73>>}
AudioData == {<<"A", "Q", "/", "A">>, <<"A">>}
Extensions == {DOT_WAV, DOT_MP3}

UploadInputs ==
    {UploadRequest(ct, fn, b) : ct \in ContentTypes, fn \in Filenames, b \in Bodies}
Base64Inputs ==
    {Base64AudioRequest(a, e) : a \in AudioData, e \in Extensions}

\* Lines 36-44: the client exists only if the SDK imported and its
\* constructor did not raise.
InitClient(imported, ctorRaises) ==
    IF imported /\ ~ctorRaises THEN "client" ELSE "None"

InitWith(requests) ==
    /\ \E imported \in BOOLEAN, ctorRaises \in BOOLEAN :
          SARVAM_CLIENT = InitClient(imported, ctorRaises)
    /\ running = 0
    /\ request \in requests
    /\ pc = [r \in Req |-> IF request[r] = NoRequest THEN "idle" ELSE "pending"]
    /\ tmp = [r \in Req |-> None]
    /\ temp_file_path = [r \in Req |-> None]
    /\ fs = EmptyDir
    /\ result = [r \in Req |-> None]
    /\ sent = [r \in Req |-> None]
    /\ response = [r \in Req |-> None]
    /\ events = [r \in Req |-> <<>>]

Init == InitWith({[r \in Req |-> NoRequest]})

\* ----------------------------------------------------------------- actions
\* A request reaches the server.
Arrive(r) ==
    /\ pc[r] = "idle"
    /\ IF r = 1 THEN TRUE ELSE pc[r - 1] # "idle"
    /\ \E input \in UploadInputs \cup Base64Inputs :
          request' = [request EXCEPT ![r] = input]
    /\ pc' = [pc EXCEPT ![r] = "pending"]
    /\ UNCHANGED <<SARVAM_CLIENT, running, tmp, temp_file_path, fs, result, sent,
                   response, events>>

\* An event loop that may enter a handler while another is suspended in one.
LoopIdleAlways == TRUE

\* Both handlers are coroutines without a single await (lines 113-151,
\* 157-192): once the event loop enters one it runs to its return or raise
\* before the loop can enter another.
LoopIdle == running = 0

\* The event loop enters the handler of a waiting request.
Dispatch(r) ==
    /\ pc[r] = "pending"
    /\ LoopIdle
    /\ running' = r
    /\ pc' = [pc EXCEPT ![r] = IF request[r].kind = "upload" THEN "validate" ELSE "decode"]
    /\ UNCHANGED <<SARVAM_CLIENT, request, tmp, temp_file_path, fs, result, sent,
                   response, events>>

\* The handler leaves through a raise that skips the cleanup block.
Leave(r, outcome) ==
    /\ result' = [result EXCEPT ![r] = Some(outcome)]
    /\ pc' = [pc EXCEPT ![r] = "done"]
    /\ running' = 0

\* The handler returns or raises inside the try whose finally cleans up.
ToFinally(r, outcome) ==
    /\ result' = [result EXCEPT ![r] = Some(outcome)]
    /\ pc' = [pc EXCEPT ![r] = "finally"]
    /\ UNCHANGED running

Log(r, what) == events' = [events EXCEPT ![r] = @ \o what]

\* --- transcribe_audio_file ------------------------------------------------
InvalidFileType == HTTPException(HTTP_400_BAD_REQUEST)
\* A storage failure reported with the provider's status.
UploadSaveErrorAs503 == HTTPException(HTTP_503_SERVICE_UNAVAILABLE)
UploadSaveError == HTTPException(HTTP_500_INTERNAL_SERVER_ERROR)
TranscriptionFailed == HTTPException(HTTP_503_SERVICE_UNAVAILABLE)

\* Lines 119-123: the content-type check, then ext from the filename.
UploadValidate(r) ==
    /\ pc[r] = "validate"
    /\ IF ~HasAudioType(request[r].content_type)
       THEN Leave(r, InvalidFileType)
       ELSE /\ pc' = [pc EXCEPT ![r] = "create"]
            /\ UNCHANGED <<running, result>>
    /\ UNCHANGED <<SARVAM_CLIENT, request, tmp, temp_file_path, fs, sent, response,
                   events>>

\* Line 125: NamedTemporaryFile(delete=False, suffix=ext) creates an empty
\* file under a name no file has, or raises; no try encloses it.
UploadCreateTemp(r) ==
    /\ pc[r] = "create"
    /\ \/ \E n \in Req :
             LET path == TmpPath(n, UploadExt(request[r].filename)) IN
             /\ \A p \in DOMAIN fs : ~(p.stem = "tmp" /\ p.rand = n)
             /\ fs' = WriteFile(path, r, <<>>)
             /\ tmp' = [tmp EXCEPT ![r] = Some(path)]
             /\ Log(r, <<"create">>)
             /\ pc' = [pc EXCEPT ![r] = "copy"]
             /\ UNCHANGED <<running, result>>
       \/ /\ Leave(r, Unhandled)
          /\ UNCHANGED <<fs, tmp, events>>
    /\ UNCHANGED <<SARVAM_CLIENT, request, temp_file_path, sent, response>>

\* Lines 126-132: copy the body into the file and remember its name, or
\* raise the storage error out of the handler with part of the body written.
UploadCopy(r) ==
    /\ pc[r] = "copy"
    /\ LET path == Get(tmp[r])
           body == request[r].body
       IN  \/ /\ fs' = WriteFile(path, r, body)
              /\ temp_file_path' = [temp_file_path EXCEPT ![r] = Some(path)]
              /\ Log(r, <<"write">>)
              /\ pc' = [pc EXCEPT ![r] = "call"]
              /\ UNCHANGED <<running, result>>
           \/ /\ \E k \in 0..(Len(body) - 1) :
                    fs' = WriteFile(path, r, SubSeq(body, 1, k))
              /\ Leave(r, UploadSaveError)
              /\ UNCHANGED <<temp_file_path, events>>
    /\ UNCHANGED <<SARVAM_CLIENT, request, tmp, sent, response>>

\* --- transcribe_base64_audio ----------------------------------------------
InvalidBase64 == HTTPException(HTTP_400_BAD_REQUEST)

\* Line 165, with the except clauses of lines 181-188.
DecodeAudio(r) ==
    /\ pc[r] = "decode"
    /\ LET decoded == B64Decode(request[r].audio_data) IN
       CASE decoded.err = "binascii.Error" -> ToFinally(r, InvalidBase64)
         [] decoded.err = "ValueError" -> ToFinally(r, TranscriptionFailed)
         [] decoded.err = "none" ->
              /\ pc' = [pc EXCEPT ![r] = "store"]
              /\ UNCHANGED <<running, result>>
    /\ UNCHANGED <<SARVAM_CLIENT, request, tmp, temp_file_path, fs, sent, response,
                   events>>

\* Lines 168-170: the fixed path, open(path, "wb"), write.  The open may
\* fail, leaving the directory as it was; the write may fail part-way.
StoreAudio(r) ==
    /\ pc[r] = "store"
    /\ LET path == MicPath(request[r].file_extension)
           audio_bytes == B64Decode(request[r].audio_data).bytes
       IN  /\ temp_file_path' = [temp_file_path EXCEPT ![r] = Some(path)]
           /\ \/ /\ fs' = WriteFile(path, r, audio_bytes)
                 /\ Log(r, <<"create", "write">>)
                 /\ pc' = [pc EXCEPT ![r] = "call"]
                 /\ UNCHANGED <<running, result>>
              \/ /\ \E k \in 0..(Len(audio_bytes) - 1) :
                       fs' = WriteFile(path, r, SubSeq(audio_bytes, 1, k))
                 /\ Log(r, <<"create">>)
                 /\ ToFinally(r, TranscriptionFailed)
              \/ /\ ToFinally(r, TranscriptionFailed)
                 /\ UNCHANGED <<fs, events>>
    /\ UNCHANGED <<SARVAM_CLIENT, request, tmp, sent, response>>

\* --- _call_sarvam_transcription_api ---------------------------------------
\* An adapter that never looks at the client before calling.
ClientMissingUnchecked == FALSE
\* Line 73: SARVAM_CLIENT is None.
ClientMissing == SARVAM_CLIENT = "None"

\* Lines 73-78: the client check, then open(file_path, 'rb'); the open file
\* is what the provider is sent.
CallOpen(r) ==
    /\ pc[r] = "call"
    /\ LET path == Get(temp_file_path[r]) IN
       IF ClientMissing \/ ~Exists(path)
       THEN /\ ToFinally(r, TranscriptionFailed)
            /\ UNCHANGED <<sent, events>>
       ELSE /\ sent' = [sent EXCEPT ![r] = Some(fs[path])]
            /\ Log(r, <<"call">>)
            /\ pc' = [pc EXCEPT ![r] = "transcribe"]
            /\ UNCHANGED <<running, result>>
    /\ UNCHANGED <<SARVAM_CLIENT, request, tmp, temp_file_path, fs, response>>

\* file.filename or "audio_file" (line 139); request.filename (line 177).
ResponseFilename(req) ==
    IF req.kind = "upload" THEN OrDefault(req.filename, DEFAULT_RESPONSE_NAME)
    ELSE Get(req.filename)

\* Lines 79-97, then the handler's return (138-141, 176-179) or its
\* except clause (143-148, 183-188): the provider answers or the call raises.
CallTranscribe(r) ==
    /\ pc[r] = "transcribe"
    /\ \/ \E answer \in Responses :
             /\ response' = [response EXCEPT ![r] = Some(answer)]
             /\ ToFinally(r, TranscriptionResponse(ResponseFilename(request[r]),
                                                   ExtractText(answer)))
       \/ /\ ToFinally(r, TranscriptionFailed)
          /\ UNCHANGED response
    /\ Log(r, <<"called">>)
    /\ UNCHANGED <<SARVAM_CLIENT, request, tmp, temp_file_path, fs, sent>>

\* Lines 149-151 and 189-192: unlink the file if the path is set and exists.
Finally(r) ==
    /\ pc[r] = "finally"
    /\ IF temp_file_path[r] # None /\ Exists(Get(temp_file_path[r]))
       THEN /\ fs' = Unlink(Get(temp_file_path[r]))
            /\ Log(r, <<"unlink">>)
       ELSE UNCHANGED <<fs, events>>
    /\ pc' = [pc EXCEPT ![r] = "done"]
    /\ running' = 0
    /\ UNCHANGED <<SARVAM_CLIENT, request, tmp, temp_file_path, result, sent, response>>

Next ==
    \E r \in Req :
        \/ Arrive(r)
        \/ Dispatch(r)
        \/ UploadValidate(r)
        \/ UploadCreateTemp(r)
        \/ UploadCopy(r)
        \/ DecodeAudio(r)
        \/ StoreAudio(r)
        \/ CallOpen(r)
        \/ CallTranscribe(r)
        \/ Finally(r)

Spec == Init /\ [][Next]_vars

\* ------------------------------------------- one Base64 request, any payload
\* The payload ranges over every text of at most MaxDataLen characters.
OnlyFirst(input) == [r \in Req |-> IF r = 1 THEN input ELSE NoRequest]

InitDecode ==
    InitWith({OnlyFirst(Base64AudioRequest(a, e)) :
                 a \in SeqsUpTo(DataChars, MaxDataLen), e \in Extensions})

NextDecode ==
    \E r \in Req :
        \/ Dispatch(r)
        \/ DecodeAudio(r)
        \/ StoreAudio(r)
        \/ CallOpen(r)
        \/ CallTranscribe(r)
        \/ Finally(r)

SpecDecode == InitDecode /\ [][NextDecode]_vars

\* ------------------------------------ one upload, any filename and media type
NameChars == {"a", ".", "/"}
AllFilenames == {None} \cup {Some(n) : n \in SeqsUpTo(NameChars, MaxNameLen)}
AllContentTypes ==
    {None, Some(<<>>), Some(AUDIO_WAV), Some(AUDIO_PREFIX), Some(TEXT_PLAIN),
     Some(<<"a", "u", "d", "i", "o">>),
     Some(<<"A", "u", "d", "i", "o", "/", "w", "a", "v">>),
     Some(<<"x">> \o AUDIO_WAV),
     Some(<<"v", "i", "d", "e", "o", "/", "a", "u", "d", "i", "o", "/">>)}

InitUpload ==
    InitWith({OnlyFirst(UploadRequest(ct, fn, b)) :
                 ct \in AllContentTypes, fn \in AllFilenames, b \in Bodies})

NextUpload ==
    \E r \in Req :
        \/ Dispatch(r)
        \/ UploadValidate(r)
        \/ UploadCreateTemp(r)
        \/ UploadCopy(r)
        \/ CallOpen(r)
        \/ CallTranscribe(r)
        \/ Finally(r)

SpecUpload == InitUpload /\ [][NextUpload]_vars

\* ================================================================== claims
Done(r) == pc[r] = "done"
Outcome(r) == Get(result[r])
IsUpload(r) == request[r].kind = "upload"
IsBase64(r) == request[r].kind = "base64"
\* The position of event x in request r's events, 0 if it has not happened.
Pos(r, x) ==
    LET at == {i \in 1..Len(events[r]) : events[r][i] = x}
    IN  IF at = {} THEN 0 ELSE CHOOSE i \in at : TRUE
Happened(r, x) == Pos(r, x) # 0

\* C1: once a handler has returned, no file that its request created is
\* left in the temp directory, whatever the exit path.
C1_NoResidualFile ==
    \A p \in DOMAIN fs : ~Done(fs[p].owner)

\* C2: an upload whose content type is missing or does not begin with
\* 'audio/' gets a 400, creates no temporary file and never reaches the
\* provider.
NonAudio(content_type) ==
    \/ content_type = None
    \/ ~StartsWith(Get(content_type), AUDIO_PREFIX)

C2_NonAudioRejected ==
    \A r \in Req :
        IsUpload(r) /\ NonAudio(request[r].content_type) =>
            /\ tmp[r] = None
            /\ events[r] = <<>>
            /\ sent[r] = None
            /\ \A p \in DOMAIN fs : fs[p].owner # r
            /\ Done(r) => Outcome(r) = HTTPException(HTTP_400_BAD_REQUEST)

\* C2 witness: an upload declared as "audio" (no slash) was answered 400.
C2_Witness ==
    \E r \in Req :
        /\ Done(r) /\ IsUpload(r)
        /\ request[r].content_type = Some(<<"a", "u", "d", "i", "o">>)
        /\ Outcome(r).status = HTTP_400_BAD_REQUEST

\* C3: every audio_data that is not valid Base64 (RFC 4648: a multiple of
\* four characters, all of the alphabet, at most two pads and only at the
\* end) gets a 400, and the provider is not invoked for it.
ValidBase64(s) ==
    /\ Len(s) % 4 = 0
    /\ \E npad \in 0..2 :
          /\ npad <= Len(s)
          /\ \A i \in 1..Len(s) :
                IF i <= Len(s) - npad THEN s[i] \in B64_ALPHABET ELSE s[i] = B64_PAD

C3_InvalidBase64Rejected ==
    \A r \in Req :
        Done(r) /\ IsBase64(r) /\ ~ValidBase64(request[r].audio_data) =>
            /\ Outcome(r) = HTTPException(HTTP_400_BAD_REQUEST)
            /\ sent[r] = None

\* C4 as stated: with SARVAM_CLIENT None every request to either endpoint
\* returns 503, and no provider call is attempted for it.
C4_EveryRequest503 ==
    SARVAM_CLIENT = "None" =>
        \A r \in Req :
            Done(r) =>
                /\ Outcome(r) = HTTPException(HTTP_503_SERVICE_UNAVAILABLE)
                /\ sent[r] = None

\* C4 as amended: with SARVAM_CLIENT None no provider call is attempted and
\* no request succeeds; every request that got as far as setting its
\* temp_file_path (input accepted, upload saved) returns 503.
C4_StoredRequest503 ==
    SARVAM_CLIENT = "None" =>
        \A r \in Req :
            /\ sent[r] = None
            /\ response[r] = None
            /\ ~Happened(r, "call")
            /\ result[r] # None => Outcome(r).kind # "response"
            /\ Done(r) /\ temp_file_path[r] # None =>
                  Outcome(r) = HTTPException(HTTP_503_SERVICE_UNAVAILABLE)

\* C4 witness: without a client, an upload and a Base64 request both got
\* past storage and both were answered 503.
C4_Witness ==
    /\ SARVAM_CLIENT = "None"
    /\ \E u \in Req, b \in Req :
          /\ IsUpload(u) /\ IsBase64(b)
          /\ Done(u) /\ Done(b)
          /\ Happened(u, "write") /\ Happened(b, "write")
          /\ Outcome(u).status = HTTP_503_SERVICE_UNAVAILABLE
          /\ Outcome(b).status = HTTP_503_SERVICE_UNAVAILABLE

\* C5: when the provider answers, the handler succeeds and transcribed_text
\* is the value under 'text' if present, else the value under 'transcript'
\* if present, else the fixed not-found text.
C5_TextFromResponse ==
    \A r \in Req :
        response[r] # None =>
            LET answer == Get(response[r]) IN
            /\ result[r] # None
            /\ Outcome(r).kind = "response"
            /\ Outcome(r).status = HTTP_200_OK
            /\ "text" \in DOMAIN answer => Outcome(r).text = answer["text"]
            /\ "text" \notin DOMAIN answer /\ "transcript" \in DOMAIN answer =>
                  Outcome(r).text = answer["transcript"]
            /\ DOMAIN answer \cap {"text", "transcript"} = {} =>
                  Outcome(r).text = NOT_FOUND_TEXT

\* C5 witness: an upload answered {transcript: T} returned T, and a Base64
\* request answered with neither key returned the not-found text as a success.
C5_Witness ==
    \E u \in Req, b \in Req :
        /\ IsUpload(u) /\ IsBase64(b) /\ Done(u) /\ Done(b)
        /\ response[u] # None /\ DOMAIN Get(response[u]) = {"transcript"}
        /\ Outcome(u).text = Get(response[u])["transcript"]
        /\ response[b] # None /\ DOMAIN Get(response[b]) = {}
        /\ Outcome(b).kind = "response" /\ Outcome(b).text = NOT_FOUND_TEXT

\* C6: every finished request has a success response, a client error or a
\* service-unavailable error; no exception leaves the handler unconverted.
C6_StructuredOutcome ==
    \A r \in Req :
        Done(r) =>
            /\ result[r] # None
            /\ Outcome(r).kind \in {"response", "HTTPException"}
            /\ Outcome(r).status \in
                  {HTTP_200_OK, HTTP_400_BAD_REQUEST, HTTP_503_SERVICE_UNAVAILABLE}

\* C7: in the upload handler a failure while the body is copied into the
\* temporary file gives the storage error 500 and no provider call; 503 is
\* given exactly when the adapter was called and gave no answer.
CopyFailed(r) == Done(r) /\ tmp[r] # None /\ temp_file_path[r] = None
AdapterFailed(r) == temp_file_path[r] # None /\ response[r] = None

C7_StorageErrorDistinct ==
    \A r \in Req :
        IsUpload(r) =>
            /\ CopyFailed(r) =>
                  /\ Outcome(r) = HTTPException(HTTP_500_INTERNAL_SERVER_ERROR)
                  /\ sent[r] = None
                  /\ ~Happened(r, "call")
            /\ Done(r) =>
                  (Outcome(r).status = HTTP_503_SERVICE_UNAVAILABLE <=> AdapterFailed(r))

\* C7 witness: a copy failed part-way, leaving the created file, and the
\* request was answered 500.
C7_Witness ==
    \E r \in Req :
        /\ IsUpload(r) /\ CopyFailed(r)
        /\ Outcome(r).status = HTTP_500_INTERNAL_SERVER_ERROR
        /\ Outcome(r).kind = "HTTPException"

\* C8 as stated: two Base64 requests with the same file_extension in one
\* server process can interleave: while one has written the shared file and
\* its provider call has not completed, the other, waiting in the same
\* process, can be entered and go on to overwrite or delete that file.
SharePath(a, b) ==
    /\ a # b
    /\ IsBase64(a) /\ IsBase64(b)
    /\ request[a].file_extension = request[b].file_extension
HoldsFile(r) == pc[r] \in {"call", "transcribe"}

C9_StoreCallCleanupOrder ==
    \A r \in Req :
        /\ Happened(r, "call") =>
              Happened(r, "write") /\ Pos(r, "write") < Pos(r, "call")
        /\ Happened(r, "unlink") /\ Happened(r, "call") =>
              Happened(r, "called") /\ Pos(r, "called") < Pos(r, "unlink")
        /\ Done(r) /\ Happened(r, "create") => Happened(r, "unlink")

\* C10: the suffix of the upload handler's temporary file is the extension
\* of the original filename, and '.wav' when there is no filename or the
\* filename has no extension.
C10_SuffixDefaultsToWav ==
    \A r \in Req :
        IsUpload(r) /\ tmp[r] # None =>
            LET filename == request[r].filename
                ext == IF filename = None THEN <<>> ELSE SplitExt(Get(filename))
            IN  Get(tmp[r]).suffix = IF ext = <<>> THEN DOT_WAV ELSE ext

====
